---- MODULE Spec2Model ----
(***************************************************************************)
(* Model of batch_generator.py: the daily book-drop batch loop.            *)
(*                                                                         *)
(* Text values (titles, URLs, file names, dates) are sequences of tokens;  *)
(* a date id is a sequence of single characters.  A Python dict is a       *)
(* function whose DOMAIN is the set of keys present.                       *)
(***************************************************************************)
EXTENDS Integers, Sequences, FiniteSets, TLC

VARIABLES pc, days_to_generate, start_date, i, date_str, display_date,
          generated_titles, html_template, book, fs, out, clock,
          cover_status, stage_trace, wrote, fs0

vars == <<pc, days_to_generate, start_date, i, date_str, display_date,
          generated_titles, html_template, book, fs, out, clock,
          cover_status, stage_trace, wrote, fs0>>

(***************************************************************************)
(* Bounds                                                                  *)
(***************************************************************************)
MaxDays == 2

(***************************************************************************)
(* Program constants                                                       *)
(***************************************************************************)
AFFILIATE_TAG == <<"your-tag-20">>
OUTPUT_DIR == <<"public/content">>
PLACEHOLDER == <<"https://placehold.co/600x900/EEE/31343C?text=Classic+Literature">>
SleepSeconds == 1

(***************************************************************************)
(* datetime arithmetic and strftime                                        *)
(***************************************************************************)
IsLeap(y) == (y % 4 = 0 /\ y % 100 # 0) \/ y % 400 = 0

DaysInMonth(y, m) ==
  IF m = 2 THEN (IF IsLeap(y) THEN 29 ELSE 28)
  ELSE IF m \in {4, 6, 9, 11} THEN 30 ELSE 31

NextDay(dt) ==
  IF dt.d < DaysInMonth(dt.y, dt.m) THEN [dt EXCEPT !.d = dt.d + 1]
  ELSE IF dt.m < 12 THEN [y |-> dt.y, m |-> dt.m + 1, d |-> 1]
  ELSE [y |-> dt.y + 1, m |-> 1, d |-> 1]

\* variant: the offset is counted from 1 instead of 0
RECURSIVE AddDaysFromOne(_, _)
AddDaysFromOne(dt, n) ==
  IF n = 0 THEN NextDay(dt) ELSE AddDaysFromOne(NextDay(dt), n - 1)

RECURSIVE AddDays(_, _)
AddDays(dt, n) == IF n = 0 THEN dt ELSE AddDays(NextDay(dt), n - 1)

Digit(n) == <<"0", "1", "2", "3", "4", "5", "6", "7", "8", "9">>[n + 1]

RECURSIVE Decimal(_)
Decimal(n) == IF n < 10 THEN <<Digit(n)>>
              ELSE Decimal(n \div 10) \o <<Digit(n % 10)>>

Pad2(n) == <<Digit(n \div 10), Digit(n % 10)>>

MonthName(m) ==
  <<"January", "February", "March", "April", "May", "June", "July",
    "August", "September", "October", "November", "December">>[m]

\* strftime("%Y-%m-%d")
FormatDateId(dt) == Decimal(dt.y) \o <<"-">> \o Pad2(dt.m) \o <<"-">> \o Pad2(dt.d)

\* strftime("%B %d, %Y")
FormatDisplay(dt) ==
  <<MonthName(dt.m), " ">> \o Pad2(dt.d) \o <<",", " ">> \o Decimal(dt.y)

(***************************************************************************)
(* Inputs                                                                  *)
(***************************************************************************)
StartDates == { [y |-> 2023, m |-> 12, d |-> 31],
                [y |-> 2024, m |-> 2, d |-> 28] }

TitleA == <<"Dune">>
TitleB == <<"Don", " ", "Quixote">>
Titles == {TitleA, TitleB}

FullBook(t) ==
  [title |-> t, author |-> <<"Some", " ", "Author">>, year |-> <<"1965">>,
   genre |-> <<"Novel">>, country |-> <<"Spain">>, isbn |-> <<"9780441013593">>,
   plot |-> <<"plot">>, buzz |-> <<"buzz">>, matters |-> <<"matters">>,
   taste |-> <<"taste">>]

Without(dict, k) == [x \in DOMAIN dict \ {k} |-> dict[x]]

\* JSON objects the generative service may answer with (keys are not validated)
Responses ==
  {FullBook(t) : t \in Titles}
    \cup {Without(FullBook(TitleA), k) : k \in {"title", "author", "isbn", "taste"}}

\* outcomes of requests.head: a status code or a raised exception
HeadOutcomes == {"200", "404", "timeout", "connection_error"}

\* outcomes of open(...,'w') + write: done, open fails, write fails part-way
WriteOutcomes == {"ok", "open_fails", "write_fails"}

NoBook == <<>>
NoDate == <<>>

(***************************************************************************)
(* Pure helpers of the program                                             *)
(***************************************************************************)
RECURSIVE ReplaceTok(_, _, _)
\* str.replace(old, new) on a token sequence
ReplaceTok(s, old, new) ==
  IF s = <<>> THEN <<>>
  ELSE (IF Head(s) = old THEN new ELSE <<Head(s)>>) \o ReplaceTok(Tail(s), old, new)

\* book[key] = value
DictSet(dict, k, v) == (k :> v) @@ dict

\* dict.get(key, default)
DictGet(dict, k, default) == IF k \in DOMAIN dict THEN dict[k] ELSE default

CoverRequestUrl(isbn) ==
  <<"https://covers.openlibrary.org/b/isbn/">> \o isbn \o <<"-L.jpg?default=false">>

\* variant: the status of the existence check is not looked at
get_cover_url_unchecked(isbn, head) ==
  IF head \in {"200", "404"} THEN CoverRequestUrl(isbn) ELSE PLACEHOLDER

get_cover_url(isbn, head) ==
  IF head = "200" THEN CoverRequestUrl(isbn) ELSE PLACEHOLDER

generate_affiliate_link(title, author) ==
  <<"https://www.amazon.com/s?k=">>
    \o ReplaceTok(title \o <<" ">> \o author, " ", <<"+">>)
    \o <<"&tag=">> \o AFFILIATE_TAG

\* os.path.join(OUTPUT_DIR, f"{date_str}.json")
JsonPath(ds) == OUTPUT_DIR \o <<"/">> \o ds \o <<".json">>
HtmlPath(ds) == OUTPUT_DIR \o <<"/">> \o ds \o <<".html">>

\* dict insertion order of a record: response keys, then the enrichment keys
KeyOrder == <<"title", "author", "year", "genre", "country", "isbn", "plot",
              "buzz", "matters", "taste", "cover_url", "buy_link",
              "date_display", "date_id">>

RECURSIVE DumpFrom(_, _)
DumpFrom(dict, n) ==
  IF n > Len(KeyOrder) THEN <<>>
  ELSE (IF KeyOrder[n] \in DOMAIN dict
          THEN <<<<KeyOrder[n], dict[KeyOrder[n]]>>>> ELSE <<>>)
       \o DumpFrom(dict, n + 1)

\* json.dump(book, f): the serialized members between braces
json_dump(dict) == <<"{">> \o DumpFrom(dict, 1) \o <<"}">>

TemplateText ==
  <<"<h1>", "{{TITLE}}", "</h1>", "{{AUTHOR}}", "{{YEAR}}", "{{GENRE}}",
    "{{COUNTRY}}", "<img>", "{{COVER_URL}}", "{{PLOT}}", "{{BUZZ}}",
    "{{MATTERS}}", "{{TASTE}}", "<a>", "{{BUY_LINK}}", "{{DATE}}">>

RenderKeys == {"title", "author", "year", "genre", "country", "cover_url",
               "plot", "buzz", "matters", "taste", "buy_link"}

\* the chain of html_template.replace(...) calls, the first call innermost
RenderHtml(tmpl, b, disp) ==
  CHOOSE final_html \in
    {ReplaceTok(r11, "{{DATE}}", disp) : r11 \in
    {ReplaceTok(r10, "{{BUY_LINK}}", b.buy_link) : r10 \in
    {ReplaceTok(r9, "{{TASTE}}", b.taste) : r9 \in
    {ReplaceTok(r8, "{{MATTERS}}", b.matters) : r8 \in
    {ReplaceTok(r7, "{{BUZZ}}", b.buzz) : r7 \in
    {ReplaceTok(r6, "{{PLOT}}", b.plot) : r6 \in
    {ReplaceTok(r5, "{{COVER_URL}}", b.cover_url) : r5 \in
    {ReplaceTok(r4, "{{COUNTRY}}", b.country) : r4 \in
    {ReplaceTok(r3, "{{GENRE}}", b.genre) : r3 \in
    {ReplaceTok(r2, "{{YEAR}}", b.year) : r2 \in
    {ReplaceTok(r1, "{{AUTHOR}}", b.author) : r1 \in
    {ReplaceTok(tmpl, "{{TITLE}}", b.title)}}}}}}}}}}}} : TRUE

\* variant: the file is opened in append mode
WriteFileAppend(files, path, text, outcome) ==
  IF outcome = "open_fails" THEN files
  ELSE (path :> (DictGet(files, path, <<>>)
                   \o (IF outcome = "ok" THEN text ELSE <<>>))) @@ files

\* what a file holds after open(path,'w') and a write that may stop part-way
WriteFile(files, path, text, outcome) ==
  IF outcome = "open_fails" THEN files
  ELSE (path :> (IF outcome = "ok" THEN text ELSE <<>>)) @@ files

\* the record an iteration holds once lines 129-132 have run
Enriched(resp, head, dt) ==
  LET b1 == DictSet(resp, "cover_url",
                    get_cover_url(DictGet(resp, "isbn", <<>>), head))
      b2 == DictSet(b1, "buy_link", generate_affiliate_link(b1.title, b1.author))
      b3 == DictSet(b2, "date_display", FormatDisplay(dt))
  IN  DictSet(b3, "date_id", FormatDateId(dt))

\* the output directory when the script starts: empty, or holding the two
\* files an earlier one-day run for the same start date has saved
FilesBefore(sd) ==
  LET old == Enriched(FullBook(TitleB), "404", sd)
  IN  { <<>>,
        (JsonPath(FormatDateId(sd)) :> json_dump(old))
          @@ (HtmlPath(FormatDateId(sd)) :>
                RenderHtml(TemplateText, old, FormatDisplay(sd))) }

(***************************************************************************)
(* Console output                                                          *)
(***************************************************************************)
MsgStarting(n) == [kind |-> "starting", n |-> n]
MsgGenerating(k, n, ds) == [kind |-> "generating", k |-> k, n |-> n, date |-> ds]
MsgSaved(t) == [kind |-> "saved", title |-> t]
MsgError(ds) == [kind |-> "error", date |-> ds]
MsgComplete == [kind |-> "complete"]

(***************************************************************************)
(* State machine                                                           *)
(***************************************************************************)
Init ==
  /\ pc = "import"
  /\ days_to_generate = 0
  /\ start_date \in StartDates
  /\ i = 0
  /\ date_str = NoDate
  /\ display_date = NoDate
  /\ generated_titles = <<>>
  /\ html_template = <<>>
  /\ book = NoBook
  /\ fs \in FilesBefore(start_date)
  /\ out = <<>>
  /\ clock = 0
  /\ cover_status = "none"
  /\ stage_trace = <<>>
  /\ wrote = {}
  /\ fs0 = fs

\* lines 15-21: API_KEY = os.getenv(...); raise ValueError when absent
LoadConfig ==
  /\ pc = "import"
  /\ \E key_present \in BOOLEAN :
       pc' = IF key_present THEN "main" ELSE "config_error"
  /\ UNCHANGED <<days_to_generate, start_date, i, date_str, display_date,
                 generated_titles, html_template, book, fs, out, clock,
                 cover_status, stage_trace, wrote, fs0>>

\* lines 106-113: entry of run_batch_job, load_template() outside any try
EnterBatch ==
  /\ pc = "main"
  /\ \E n \in 0..MaxDays, template_exists \in BOOLEAN :
       /\ days_to_generate' = n
       /\ generated_titles' = <<>>
       /\ IF template_exists
            THEN /\ html_template' = TemplateText
                 /\ out' = <<MsgStarting(n)>>
                 /\ pc' = "loop"
            ELSE /\ html_template' = <<>>
                 /\ out' = <<>>
                 /\ pc' = "crashed"
  /\ i' = 0
  /\ UNCHANGED <<start_date, date_str, display_date, book, fs, clock,
                 cover_status, stage_trace, wrote, fs0>>

\* lines 115-121: next value of the for loop, date of the drop, progress line
ForNext ==
  /\ pc = "loop"
  /\ i < days_to_generate
  /\ LET current_date == AddDays(start_date, i)
     IN  /\ date_str' = FormatDateId(current_date)
         /\ display_date' = FormatDisplay(current_date)
         /\ out' = Append(out, MsgGenerating(i + 1, days_to_generate,
                                             FormatDateId(current_date)))
  /\ book' = NoBook
  /\ cover_status' = "none"
  /\ stage_trace' = <<>>
  /\ pc' = "request"
  /\ UNCHANGED <<days_to_generate, start_date, i, generated_titles,
                 html_template, fs, clock, wrote, fs0>>

\* line 165: the loop is exhausted
Banner ==
  /\ pc = "loop"
  /\ i >= days_to_generate
  /\ out' = Append(out, MsgComplete)
  /\ pc' = "done"
  /\ UNCHANGED <<days_to_generate, start_date, i, date_str, display_date,
                 generated_titles, html_template, book, fs, clock,
                 cover_status, stage_trace, wrote, fs0>>

\* variant: the handler is missing and a raise leaves run_batch_job
HandlerMissing == "crashed"

\* line 162: "except Exception" is where a raise inside the try lands
Handler == "except"

\* variant: the record is written before date_display and date_id are set
StageAfterSkipEnrich(stage) ==
  CASE stage = "request" -> "cover"
    [] stage = "cover"   -> "link"
    [] stage = "link"    -> "persist"
    [] stage = "enrich"  -> "persist"
    [] stage = "persist" -> "render"
    [] stage = "render"  -> "saved"

\* variant: the success line follows the JSON write, the HTML is never written
StageAfterSkipRender(stage) ==
  CASE stage = "request" -> "cover"
    [] stage = "cover"   -> "link"
    [] stage = "link"    -> "enrich"
    [] stage = "enrich"  -> "persist"
    [] stage = "persist" -> "saved"
    [] stage = "render"  -> "saved"

\* lines 125-155: the statement that follows a completed stage of the try body
StageAfter(stage) ==
  CASE stage = "request" -> "cover"
    [] stage = "cover"   -> "link"
    [] stage = "link"    -> "enrich"
    [] stage = "enrich"  -> "persist"
    [] stage = "persist" -> "render"
    [] stage = "render"  -> "saved"

\* lines 125-126: get_book_recommendation(generated_titles), then the append
RequestContent ==
  /\ pc = "request"
  /\ \/ /\ pc' = Handler
        /\ UNCHANGED <<book, generated_titles, stage_trace>>
     \/ \E resp \in Responses :
          /\ book' = resp
          /\ IF "title" \in DOMAIN resp
               THEN /\ generated_titles' = Append(generated_titles, resp.title)
                    /\ stage_trace' = Append(stage_trace, "REQUEST_CONTENT")
                    /\ pc' = StageAfter("request")
               ELSE /\ pc' = Handler
                    /\ UNCHANGED <<generated_titles, stage_trace>>
  /\ UNCHANGED <<days_to_generate, start_date, i, date_str, display_date,
                 html_template, fs, out, clock, cover_status, wrote, fs0>>

\* line 129: book['cover_url'] = get_cover_url(book.get('isbn', ''))
ResolveCover ==
  /\ pc = "cover"
  /\ \E head \in HeadOutcomes :
       /\ book' = DictSet(book, "cover_url",
                          get_cover_url(DictGet(book, "isbn", <<>>), head))
       /\ cover_status' = head
  /\ stage_trace' = Append(stage_trace, "RESOLVE_COVER")
  /\ pc' = StageAfter("cover")
  /\ UNCHANGED <<days_to_generate, start_date, i, date_str, display_date,
                 generated_titles, html_template, fs, out, clock, wrote, fs0>>

\* line 130: book['buy_link'] = generate_affiliate_link(book['title'], book['author'])
BuildLink ==
  /\ pc = "link"
  /\ IF {"title", "author"} \subseteq DOMAIN book
       THEN /\ book' = DictSet(book, "buy_link",
                               generate_affiliate_link(book.title, book.author))
            /\ stage_trace' = Append(stage_trace, "BUILD_LINK")
            /\ pc' = StageAfter("link")
       ELSE /\ pc' = Handler
            /\ UNCHANGED <<book, stage_trace>>
  /\ UNCHANGED <<days_to_generate, start_date, i, date_str, display_date,
                 generated_titles, html_template, fs, out, clock, cover_status,
                 wrote, fs0>>

\* lines 131-132: date_display and date_id
Enrich ==
  /\ pc = "enrich"
  /\ book' = DictSet(DictSet(book, "date_display", display_date),
                     "date_id", date_str)
  /\ stage_trace' = Append(stage_trace, "ENRICH")
  /\ pc' = StageAfter("enrich")
  /\ UNCHANGED <<days_to_generate, start_date, i, date_str, display_date,
                 generated_titles, html_template, fs, out, clock, cover_status,
                 wrote, fs0>>

\* lines 135-137: open the JSON file for writing and dump the record
Persist ==
  /\ pc = "persist"
  /\ \E o \in WriteOutcomes :
       /\ fs' = WriteFile(fs, JsonPath(date_str), json_dump(book), o)
       /\ wrote' = IF o = "open_fails" THEN wrote
                   ELSE wrote \cup {JsonPath(date_str)}
       /\ IF o = "ok"
            THEN /\ stage_trace' = Append(stage_trace, "PERSIST")
                 /\ pc' = StageAfter("persist")
            ELSE /\ pc' = Handler
                 /\ UNCHANGED stage_trace
  /\ UNCHANGED <<days_to_generate, start_date, i, date_str, display_date,
                 generated_titles, html_template, book, out, clock,
                 cover_status, fs0>>

\* lines 140-155: substitute the placeholders, write the HTML file
Render ==
  /\ pc = "render"
  /\ IF RenderKeys \subseteq DOMAIN book
       THEN \E o \in WriteOutcomes :
              /\ fs' = WriteFile(fs, HtmlPath(date_str),
                                 RenderHtml(html_template, book, display_date), o)
              /\ wrote' = IF o = "open_fails" THEN wrote
                          ELSE wrote \cup {HtmlPath(date_str)}
              /\ IF o = "ok"
                   THEN /\ stage_trace' = Append(stage_trace, "RENDER")
                        /\ pc' = StageAfter("render")
                   ELSE /\ pc' = Handler
                        /\ UNCHANGED stage_trace
       ELSE /\ pc' = Handler
            /\ UNCHANGED <<fs, wrote, stage_trace>>
  /\ UNCHANGED <<days_to_generate, start_date, i, date_str, display_date,
                 generated_titles, html_template, book, out, clock,
                 cover_status, fs0>>

\* lines 157-160: success line, then time.sleep(1)
Saved ==
  /\ pc = "saved"
  /\ out' = Append(out, MsgSaved(book.title))
  /\ clock' = clock + SleepSeconds
  /\ i' = i + 1
  /\ cover_status' = "none"
  /\ stage_trace' = <<>>
  /\ pc' = "loop"
  /\ UNCHANGED <<days_to_generate, start_date, date_str, display_date,
                 generated_titles, html_template, book, fs, wrote, fs0>>

\* lines 162-163: the handler prints the failing date, the loop goes on
Except ==
  /\ pc = "except"
  /\ out' = Append(out, MsgError(date_str))
  /\ i' = i + 1
  /\ cover_status' = "none"
  /\ stage_trace' = <<>>
  /\ pc' = "loop"
  /\ UNCHANGED <<days_to_generate, start_date, date_str, display_date,
                 generated_titles, html_template, book, fs, clock, wrote, fs0>>

Next ==
  \/ LoadConfig
  \/ EnterBatch
  \/ ForNext
  \/ RequestContent
  \/ ResolveCover
  \/ BuildLink
  \/ Enrich
  \/ Persist
  \/ Render
  \/ Saved
  \/ Except
  \/ Banner

Spec == Init /\ [][Next]_vars

\* one start date and an empty output directory: progress of the loop does
\* not depend on either
FairInit == Init /\ start_date = [y |-> 2023, m |-> 12, d |-> 31] /\ fs = <<>>

\* the interpreter always executes the next statement of a running script
FairSpec == FairInit /\ [][Next]_vars /\ WF_vars(Next)

(***************************************************************************)
(* Vocabulary of the properties                                            *)
(***************************************************************************)
\* dates of the progress lines, in the order they were printed
RECURSIVE GeneratingDates(_)
GeneratingDates(log) ==
  IF log = <<>> THEN <<>>
  ELSE (IF Head(log).kind = "generating" THEN <<Head(log).date>> ELSE <<>>)
       \o GeneratingDates(Tail(log))

\* titles of the success lines, in the order they were printed
RECURSIVE SavedTitles(_)
SavedTitles(log) ==
  IF log = <<>> THEN <<>>
  ELSE (IF Head(log).kind = "saved" THEN <<Head(log).title>> ELSE <<>>)
       \o SavedTitles(Tail(log))

\* dates whose progress line is followed by a success / a failure line
ReportedSaved ==
  {out[n].date : n \in {k \in 1..(Len(out) - 1) :
       out[k].kind = "generating" /\ out[k + 1].kind = "saved"}}
ReportedFailed ==
  {out[n].date : n \in {k \in 1..(Len(out) - 1) :
       out[k].kind = "generating" /\ out[k + 1].kind = "error"}}

\* date.toordinal(): days since 0001-01-01, computed without stepping days
DaysBeforeMonth(y, m) ==
  <<0, 31, 59, 90, 120, 151, 181, 212, 243, 273, 304, 334>>[m]
    + (IF m > 2 /\ IsLeap(y) THEN 1 ELSE 0)
Ordinal(dt) ==
  365 * (dt.y - 1) + ((dt.y - 1) \div 4) - ((dt.y - 1) \div 100)
    + ((dt.y - 1) \div 400) + DaysBeforeMonth(dt.y, dt.m) + dt.d

Digits == {Digit(n) : n \in 0..9}
DigitVal(c) == CHOOSE n \in 0..9 : Digit(n) = c

\* a ten-character YYYY-MM-DD string naming a calendar day
IsIsoDate(ds) ==
  /\ Len(ds) = 10
  /\ ds[5] = "-" /\ ds[8] = "-"
  /\ \A n \in {1, 2, 3, 4, 6, 7, 9, 10} : ds[n] \in Digits
ParseIsoDate(ds) ==
  [y |-> 1000 * DigitVal(ds[1]) + 100 * DigitVal(ds[2])
           + 10 * DigitVal(ds[3]) + DigitVal(ds[4]),
   m |-> 10 * DigitVal(ds[6]) + DigitVal(ds[7]),
   d |-> 10 * DigitVal(ds[9]) + DigitVal(ds[10])]
IsCalendarDay(dt) ==
  /\ dt.m \in 1..12
  /\ dt.d \in 1..DaysInMonth(dt.y, dt.m)

\* file stem of an output path: what stands between the directory and the suffix
Stem(path) == SubSeq(path, Len(OUTPUT_DIR) + 2, Len(path) - 1)
WrittenStems == {Stem(p) : p \in wrote}

\* json.load: the object a complete JSON text denotes
json_load(text) ==
  LET members == SubSeq(text, 2, Len(text) - 1)
  IN  [k \in {members[n][1] : n \in 1..Len(members)} |->
         members[CHOOSE n \in 1..Len(members) : members[n][1] = k][2]]

Complete(path) == path \in DOMAIN fs /\ fs[path] # <<>>

EnrichmentKeys == {"cover_url", "buy_link", "date_display", "date_id"}
StageOrder == <<"REQUEST_CONTENT", "RESOLVE_COVER", "BUILD_LINK", "ENRICH",
                "PERSIST", "RENDER">>
Terminated == pc \in {"config_error", "crashed", "done"}

(***************************************************************************)
(* Properties                                                              *)
(***************************************************************************)
ExpectedDates ==
  [k \in 1..days_to_generate |-> FormatDateId(AddDays(start_date, k - 1))]

\* C1: whatever stages raise inside the iterations, once the loop is entered
\* every day 0..N-1 is eventually attempted, in order, and the completion
\* banner is printed.
C1_EveryDayAttempted ==
  (pc = "loop") ~> (/\ pc = "done"
                    /\ GeneratingDates(out) = ExpectedDates
                    /\ out[Len(out)] = MsgComplete)

\* a finished two-day batch whose first day failed and whose second was saved
C1_Witness ==
  /\ pc = "done"
  /\ days_to_generate = 2
  /\ Len(out) = 6
  /\ out[3].kind = "error"
  /\ out[5].kind = "saved"

\* C2: between iterations the exclusion list holds exactly the titles of the
\* iterations that succeeded; a failed day contributes no title.
C2_OnlySucceededTitlesExcluded ==
  pc \in {"loop", "request", "done"} => generated_titles = SavedTitles(out)

\* C3: with the secret present, the process never stops before every one of
\* the N iterations has been attempted, whatever collaborator fails.
C3_OnlyConfigErrorTerminates ==
  (Terminated /\ pc # "config_error") =>
     /\ pc = "done"
     /\ Len(GeneratingDates(out)) = days_to_generate

\* C4: a run writes files for at most N date ids; each is a YYYY-MM-DD
\* calendar day start_date + k with 0 <= k < N, it is the stem of the file
\* and the date_id of the record in it; no other file is touched.
C4_DateIdsWithinRange ==
  /\ Cardinality(WrittenStems) <= days_to_generate
  /\ \A ds \in WrittenStems :
       /\ IsIsoDate(ds)
       /\ IsCalendarDay(ParseIsoDate(ds))
       /\ Ordinal(ParseIsoDate(ds)) - Ordinal(start_date)
            \in 0..(days_to_generate - 1)
       /\ Complete(JsonPath(ds)) /\ JsonPath(ds) \in wrote
            => json_load(fs[JsonPath(ds)]).date_id = ds
  /\ \A p \in wrote : p \in {JsonPath(Stem(p)), HtmlPath(Stem(p))}
  /\ DOMAIN fs = DOMAIN fs0 \cup wrote
  /\ \A p \in DOMAIN fs \ wrote : fs[p] = fs0[p]

\* both days of a batch that crosses the year end have their JSON file
C4_Witness ==
  /\ pc = "done"
  /\ JsonPath(<<"2", "0", "2", "3", "-", "1", "2", "-", "3", "1">>) \in wrote
  /\ Complete(JsonPath(<<"2", "0", "2", "4", "-", "0", "1", "-", "0", "1">>))

\* C5: the cover lookup yields the constructed URL when the check answers 200
\* and the placeholder otherwise, never an empty string; the cover stage
\* always hands over to the link stage, and the record written for a day
\* whose lookup failed carries the placeholder.
C5_CoverState ==
  /\ cover_status # "none" =>
       /\ book.cover_url # <<>>
       /\ IF cover_status = "200"
            THEN book.cover_url = CoverRequestUrl(DictGet(book, "isbn", <<>>))
            ELSE book.cover_url = PLACEHOLDER
  /\ (pc \in {"render", "saved"} /\ cover_status # "200") =>
       json_load(fs[JsonPath(date_str)]).cover_url = PLACEHOLDER
C5_CoverNeverSkipsDay ==
  /\ []C5_CoverState
  /\ [][pc = "cover" => pc' = "link"]_vars

\* a day saved although its lookup timed out for a record without ISBN
C5_Witness ==
  /\ pc = "saved"
  /\ cover_status = "timeout"
  /\ "isbn" \notin DOMAIN book
  /\ json_load(fs[JsonPath(date_str)]).cover_url = PLACEHOLDER

JsonWritten == {p \in wrote : p = JsonPath(Stem(p)) /\ Complete(p)}

\* C6: no two records written by one run carry the same title.
C6_TitlesUniqueInRun ==
  \A p, q \in JsonWritten :
     p # q => json_load(fs[p]).title # json_load(fs[q]).title

\* C7: when an iteration has succeeded, the JSON file of its date holds
\* exactly the record just generated, and the HTML file its rendering,
\* whatever the files held before the run.
C7_OverwriteNoMerge ==
  pc = "saved" =>
    /\ fs[JsonPath(date_str)] = json_dump(book)
    /\ json_load(fs[JsonPath(date_str)]) = book
    /\ fs[HtmlPath(date_str)] = RenderHtml(html_template, book, display_date)

\* a date that had a complete file before the run now holds other content
C7_Witness ==
  /\ pc = "saved"
  /\ JsonPath(date_str) \in DOMAIN fs0
  /\ fs0[JsonPath(date_str)] # <<>>
  /\ json_load(fs0[JsonPath(date_str)]).title # book.title
  /\ fs[JsonPath(date_str)] # fs0[JsonPath(date_str)]

\* C8 as stated: a day reported as failed has no file written in the run, and
\* the dates with a file written are exactly the days reported as saved.
C8_FailedDayHasNoFile ==
  pc \in {"loop", "done"} =>
    /\ \A ds \in ReportedFailed :
         JsonPath(ds) \notin wrote /\ HtmlPath(ds) \notin wrote
    /\ WrittenStems = ReportedSaved

\* C8 amended: the days reported as saved are exactly the dates whose HTML
\* file was written completely in the run, and their JSON file is complete
\* too; a day reported as failed has at most a truncated HTML file, while
\* every day with a file written was reported one way or the other.
C8_SavedIffHtmlComplete ==
  pc \in {"loop", "done"} =>
    /\ ReportedSaved = {ds \in WrittenStems :
                          HtmlPath(ds) \in wrote /\ Complete(HtmlPath(ds))}
    /\ \A ds \in ReportedSaved :
         JsonPath(ds) \in wrote /\ Complete(JsonPath(ds))
    /\ \A ds \in ReportedFailed :
         HtmlPath(ds) \in wrote => fs[HtmlPath(ds)] = <<>>
    /\ WrittenStems \subseteq ReportedSaved \cup ReportedFailed

\* a finished batch with a saved day and a failed day whose JSON file is complete
C8_Witness ==
  /\ pc = "done"
  /\ ReportedSaved # {}
  /\ \E ds \in ReportedFailed :
       JsonPath(ds) \in wrote /\ Complete(JsonPath(ds))

\* C9: a delay has elapsed for every earlier iteration whenever a content
\* request starts, whether those iterations succeeded or raised.
C9_DelayBetweenRequests ==
  pc = "request" => clock >= i * SleepSeconds

StageOf(p) ==
  CASE p = "request" -> 0
    [] p = "cover"   -> 1
    [] p = "link"    -> 2
    [] p = "enrich"  -> 3
    [] p = "persist" -> 4
    [] p = "render"  -> 5
    [] p = "saved"   -> 6

\* C10: the stages of an iteration run in the order REQUEST_CONTENT,
\* RESOLVE_COVER, BUILD_LINK, ENRICH, PERSIST, RENDER, each entered only when
\* all earlier ones completed; the record is written with its four
\* enrichment fields; the next day starts only from a finished or abandoned day.
C10_StageState ==
  /\ stage_trace = SubSeq(StageOrder, 1, Len(stage_trace))
  /\ pc \in {"request", "cover", "link", "enrich", "persist", "render", "saved"}
       => Len(stage_trace) = StageOf(pc)
  /\ cover_status # "none" => Len(stage_trace) >= 2 /\ "title" \in DOMAIN book
  /\ (Len(stage_trace) >= 5 /\ pc # "loop") =>
       EnrichmentKeys \subseteq DOMAIN json_load(fs[JsonPath(date_str)])
C10_StagesInOrder ==
  /\ []C10_StageState
  /\ [][/\ i' # i => (pc \in {"saved", "except"} /\ i' = i + 1 /\ pc' = "loop")
        /\ pc' = "request" => (pc = "loop" /\ stage_trace' = <<>>)]_vars

\* the second day of a batch went through all six stages
C10_Witness ==
  /\ pc = "saved"
  /\ i = 1
  /\ stage_trace = StageOrder
====
